---- MODULE Spec2Model ----
(***************************************************************************)
(* Sortie recorder of the Flight Data Management API.                      *)
(*                                                                         *)
(* src/server.js: POST /api/sorties, one handler whose awaits are the      *)
(* interleaving points of concurrent requests.                             *)
(* src/DATABASE_SETUP.md: the PostgreSQL schema the handler writes to: the *)
(* tables with their constraints, generate_sortie_number() and the         *)
(* flight-hours trigger.                                                   *)
(*                                                                         *)
(* Text values are sequences of one-character strings, so that SUBSTRING,  *)
(* LPAD, LIKE and the casts between text and integer are computed the way  *)
(* PostgreSQL computes them.  Timestamps are whole minutes.  Aircraft      *)
(* flight hours are DECIMAL(10,2), kept as a number of hundredths.         *)
(***************************************************************************)
EXTENDS Integers, Sequences, FiniteSets, TLC

\* ------------------------------------------------------------------------
\* The store: committed rows of the four tables, the aircraft table's
\* flight hours, the sortie_id sequence and the current year; the calls
\* in flight, each with the rows its open transaction has written; the
\* GET request in flight.
\* ------------------------------------------------------------------------
VARIABLES sorties, sortie_crew, sortie_passengers, sortie_cargo, aircraft,
          sortie_id_seq, year, call, commits, updates, get

\* ------------------------------------------------------------------------
\* Bounds of the model
\* ------------------------------------------------------------------------
MaxCalls == 2
MaxSequentialCalls == 1
FirstYear == 2024
MaxYearChanges == 1
MinuteStep == 10
MaxTime == 3
MaxUpdates == 3
MaxReads == 2
MaxFetchId == 3

\* ------------------------------------------------------------------------
\* Program constants
\* ------------------------------------------------------------------------
NumAircraft == 12
NumLocations == 8
NumPersonnel == 8
DefaultUserId == 1
SeqFrom == 8
PadWidth == 4
HoursScale == 100
MinutesPerHour == 60
SearchLimit == 100

Undefined == "undefined"
Null == "NULL"

MissionTypes == {"CASEVAC", "PR", "Enabling", "Training", "Lift"}
SortieStatuses == {"Planned", "In-Flight", "Completed", "Cancelled", "Aborted"}
CrewPositions == {"PIC", "SIC", "O/I", "Other"}
PassengerTypeNames == {"Military", "Civilian", "Contractor", "Partner Forces", "Other"}
AircraftIds == 1..NumAircraft
LocationIds == 1..NumLocations
PersonnelIds == 1..NumPersonnel

passengerTypes == <<"military", "civilian", "contractor", "partner", "other">>
passengerTypeMap ==
    [military |-> "Military", civilian |-> "Civilian", contractor |-> "Contractor",
     partner |-> "Partner Forces", other |-> "Other"]

\* ------------------------------------------------------------------------
\* Text and integer conversions (PostgreSQL)
\* ------------------------------------------------------------------------
Digits == <<"0", "1", "2", "3", "4", "5", "6", "7", "8", "9">>

DigitVal(ch) == (CHOOSE d \in 1..10 : Digits[d] = ch) - 1

\* integer::TEXT
RECURSIVE ToText(_)
ToText(n) ==
    IF n < 10 THEN <<Digits[n + 1]>>
    ELSE ToText(n \div 10) \o <<Digits[(n % 10) + 1]>>

\* CAST(text AS INTEGER), on a text of digits
RECURSIVE CastInteger(_)
CastInteger(s) ==
    IF s = <<>> THEN 0
    ELSE CastInteger(SubSeq(s, 1, Len(s) - 1)) * 10 + DigitVal(s[Len(s)])

\* SUBSTRING(s FROM n)
Substring(s, n) == SubSeq(s, n, Len(s))

\* LPAD(s, n, fill): s cut to its first n characters when longer than n,
\* filled on the left otherwise
RECURSIVE LPad(_, _, _)
LPad(s, n, fill) ==
    IF Len(s) >= n THEN SubSeq(s, 1, n) ELSE LPad(<<fill>> \o s, n, fill)

\* s LIKE prefix || '%'
LikePrefix(s, prefix) ==
    /\ Len(s) >= Len(prefix)
    /\ SubSeq(s, 1, Len(prefix)) = prefix

\* TO_CHAR(CURRENT_DATE, 'YYYY')
YearStr(y) == ToText(y)

SetMax(S) == CHOOSE m \in S : \A x \in S : x <= m

\* generate_sortie_number(), evaluated on the sortie rows its statement sees
NumberPrefix(y) == <<"S", "-">> \o YearStr(y) \o <<"-">>

SeqNumber(sortie_number) == CastInteger(Substring(sortie_number, SeqFrom))

YearSeqNumbers(rows, y) ==
    {SeqNumber(r.sortie_number) :
        r \in {x \in rows : LikePrefix(x.sortie_number, NumberPrefix(y))}}

\* a numbering that counts the sorties of the year: COUNT(*) + 1
NextNumber_FromCount(rows, y) == Cardinality(YearSeqNumbers(rows, y)) + 1

\* COALESCE(MAX(CAST(SUBSTRING(sortie_number FROM 8) AS INTEGER)), 0) + 1
NextNumber(rows, y) ==
    (IF YearSeqNumbers(rows, y) = {} THEN 0 ELSE SetMax(YearSeqNumbers(rows, y))) + 1

\* a numbering that takes the next value of the sortie_id sequence
generate_sortie_number_FromSequence(rows, y) ==
    NumberPrefix(y) \o LPad(ToText(sortie_id_seq), PadWidth, "0")

generate_sortie_number(rows, y) ==
    NumberPrefix(y) \o LPad(ToText(NextNumber(rows, y)), PadWidth, "0")

\* ------------------------------------------------------------------------
\* Request payloads (req.body).  A section or slot the request leaves out
\* has defined = FALSE; a field left out holds the falsy value of its type
\* (0, "", FALSE), which the handler's `x || d` and `if (x)` treat as they
\* treat undefined.  A text field the handler passes on unchanged keeps
\* Undefined, which the driver sends as NULL.
\* ------------------------------------------------------------------------
TruthyNumber(v) == v # 0
TruthyText(v) == v \notin {"", Undefined, Null}

\* JavaScript's x || d, on numbers, texts and booleans
OrNumber(v, d) == IF TruthyNumber(v) THEN v ELSE d
OrText(v, d) == IF TruthyText(v) THEN v ELSE d
OrBool(v, d) == IF v THEN v ELSE d

\* an undefined value bound to a query parameter is sent as NULL
Param(v) == IF v = Undefined THEN Null ELSE v

Times == {t * MinuteStep : t \in 0..MaxTime}
UnknownId == NumAircraft + 1

NoSortie ==
    [defined |-> FALSE, missionType |-> "", tailNumber |-> 0, depLocation |-> 0,
     arrLocation |-> 0, takeoffTime |-> 0, landingTime |-> 0, sortieStatus |-> ""]

SortieOf(m, a, d, l, t1, t2) ==
    [defined |-> TRUE, missionType |-> m, tailNumber |-> a, depLocation |-> d,
     arrLocation |-> l, takeoffTime |-> t1, landingTime |-> t2, sortieStatus |-> ""]

NoSlot == [defined |-> FALSE, name |-> 0]
Slot(n) == [defined |-> TRUE, name |-> n]
Member(n, pos) == [name |-> n, position |-> pos]

NoCrew == [defined |-> FALSE, pic |-> NoSlot, sic |-> NoSlot, oi |-> NoSlot, additional |-> <<>>]
CrewOf(p, s, o, add) == [defined |-> TRUE, pic |-> p, sic |-> s, oi |-> o, additional |-> add]

NoCategory == [defined |-> FALSE, onload |-> 0, offload |-> 0, notes |-> ""]
Category(on, off, n) == [defined |-> TRUE, onload |-> on, offload |-> off, notes |-> n]

NoPassengers ==
    [defined |-> FALSE, military |-> NoCategory, civilian |-> NoCategory,
     contractor |-> NoCategory, partner |-> NoCategory, other |-> NoCategory]
EmptyPassengers == [NoPassengers EXCEPT !.defined = TRUE]

NoCargo ==
    [defined |-> FALSE, onloadWeight |-> 0, offloadWeight |-> 0, description |-> "",
     hazmat |-> FALSE, specialHandling |-> ""]
EmptyCargo == [NoCargo EXCEPT !.defined = TRUE]

SortieOptions ==
    {SortieOf("Training", 1, 1, 2, t1, t2) : t1 \in {0, MinuteStep}, t2 \in Times}
    \cup {SortieOf("Recon", 1, 1, 2, 0, MinuteStep),
          SortieOf("Lift", UnknownId, 1, 2, 0, MinuteStep),
          SortieOf("Lift", 2, 1, UnknownId, 0, MinuteStep),
          [SortieOf("Lift", 2, 1, 2, 0, MinuteStep) EXCEPT !.sortieStatus = "Planned"],
          NoSortie}

CrewOptions ==
    {NoCrew,
     CrewOf(NoSlot, NoSlot, NoSlot, <<>>),
     CrewOf(Slot(1), NoSlot, NoSlot, <<>>),
     CrewOf(Slot(1), Slot(2), Slot(3), <<>>),
     CrewOf(Slot(1), Slot(1), NoSlot, <<>>),
     CrewOf(Slot(0), Slot(2), Slot(2), <<>>),
     CrewOf(Slot(UnknownId), NoSlot, NoSlot, <<>>),
     CrewOf(Slot(1), NoSlot, NoSlot, <<Member(1, "FE")>>),
     CrewOf(Slot(1), NoSlot, NoSlot, <<Member(0, "FE"), Member(4, "FE")>>),
     CrewOf(NoSlot, NoSlot, Slot(3), <<Member(4, "FE"), Member(4, "LM")>>),
     CrewOf(NoSlot, Slot(2), NoSlot, <<Member(4, Undefined)>>),
     CrewOf(NoSlot, NoSlot, NoSlot, <<Member(4, "")>>)}

PassengerOptions ==
    {NoPassengers,
     EmptyPassengers,
     [EmptyPassengers EXCEPT !.military = Category(2, 1, "vip")],
     [EmptyPassengers EXCEPT !.civilian = Category(0, 0, ""), !.other = Category(3, 0, "")],
     [EmptyPassengers EXCEPT !.military = Category(1, 0, ""), !.partner = Category(0 - 1, 0, "")]}

CargoOptions ==
    {NoCargo,
     EmptyCargo,
     [EmptyCargo EXCEPT !.onloadWeight = 5],
     [EmptyCargo EXCEPT !.offloadWeight = 7, !.hazmat = TRUE],
     [EmptyCargo EXCEPT !.onloadWeight = 5, !.offloadWeight = 7, !.description = "fuel",
                        !.hazmat = TRUE, !.specialHandling = "keep upright"],
     [EmptyCargo EXCEPT !.onloadWeight = 0 - 5]}

PayloadOf(s, c, p, g) == [sortie |-> s, crew |-> c, passengers |-> p, cargo |-> g]

BaseSortie == SortieOf("Training", 1, 1, 2, 0, MinuteStep)
BaseCrew == CrewOf(Slot(1), NoSlot, NoSlot, <<>>)
BasePassengers == [EmptyPassengers EXCEPT !.military = Category(2, 1, "")]
BasePayload == PayloadOf(BaseSortie, BaseCrew, BasePassengers, EmptyCargo)
NoPayload == PayloadOf(NoSortie, NoCrew, NoPassengers, NoCargo)

\* the payloads of the model: the base payload with one section varied
Payloads ==
    {[BasePayload EXCEPT !.sortie = s] : s \in SortieOptions}
    \cup {[BasePayload EXCEPT !.crew = c] : c \in CrewOptions}
    \cup {[BasePayload EXCEPT !.passengers = p] : p \in PassengerOptions}
    \cup {[BasePayload EXCEPT !.cargo = g] : g \in CargoOptions}

\* the payloads of overlapping calls: one that the store accepts, one for
\* each insert that the store rejects it in, one the handler fails on after
\* its inserts
ConcurrentPayloads ==
    {BasePayload,
     [BasePayload EXCEPT !.sortie = SortieOf("Training", 1, 1, 2, MinuteStep, MinuteStep)],
     [BasePayload EXCEPT !.crew = CrewOf(Slot(1), Slot(1), NoSlot, <<>>)],
     [BasePayload EXCEPT !.passengers.partner = Category(0 - 1, 0, "")],
     [BasePayload EXCEPT !.cargo = [EmptyCargo EXCEPT !.onloadWeight = 0 - 5]],
     [BasePayload EXCEPT !.cargo = NoCargo]}

vars == <<sorties, sortie_crew, sortie_passengers, sortie_cargo, aircraft,
          sortie_id_seq, year, call, commits, updates, get>>

tables == <<sorties, sortie_crew, sortie_passengers, sortie_cargo>>

CallIds == 1..MaxCalls

NoError == ""
TypeError == "TypeError: Cannot read properties of undefined"
ConnectionError == "Connection terminated unexpectedly"

EmptyTx == [sorties |-> {}, crew |-> {}, passengers |-> {}, cargo |-> {}, aircraft |-> {}]

NoResponse ==
    [status |-> 0, success |-> FALSE, sortieId |-> 0, sortieNumber |-> <<>>,
     error |-> "", details |-> ""]

\* res.status(201).json({success: true, sortieId, sortieNumber, message})
Created(id, number) ==
    [status |-> 201, success |-> TRUE, sortieId |-> id, sortieNumber |-> number,
     error |-> "", details |-> ""]

\* the failure response without the violation's message
Failed_NoDetails(message) ==
    [status |-> 500, success |-> FALSE, sortieId |-> 0, sortieNumber |-> <<>>,
     error |-> "Failed to create sortie", details |-> ""]

\* res.status(500).json({success: false, error, details: err.message})
Failed(message) ==
    [status |-> 500, success |-> FALSE, sortieId |-> 0, sortieNumber |-> <<>>,
     error |-> "Failed to create sortie", details |-> message]

\* app.use((err, req, res, next) => res.status(500).json({error, message}))
InternalError ==
    [status |-> 500, success |-> FALSE, sortieId |-> 0, sortieNumber |-> <<>>,
     error |-> "Internal server error", details |-> ""]

\* what the caller gets when the handler's promise rejects: nothing when the
\* router drops the rejection, the error middleware's response when the
\* router forwards it
Unhandled == {NoResponse, InternalError}

IdleCall ==
    [pc |-> "idle", idx |-> 0, payload |-> NoPayload, sortieNumber |-> <<>>,
     sortieId |-> 0, err |-> NoError, conn |-> "none", txn |-> "none", tx |-> EmptyTx,
     response |-> NoResponse, released |-> 0, epoch |-> 0, ends |-> <<>>]

\* ---- rows ---------------------------------------------------------------
\* the column default: sortie_status VARCHAR(50) DEFAULT 'Planned'
CreatedStatus_ColumnDefault == "Planned"

\* VALUES ($1, ..., $9, 'Completed'): the status is a literal of the
\* statement, whatever the payload carries
CreatedStatus == "Completed"

SortieRow(id, number, s) ==
    [sortie_id |-> id, sortie_number |-> number, mission_type |-> s.missionType,
     aircraft_id |-> s.tailNumber, departure_location_id |-> s.depLocation,
     arrival_location_id |-> s.arrLocation, takeoff_time |-> s.takeoffTime,
     landing_time |-> s.landingTime, sortie_status |-> CreatedStatus,
     created_by |-> DefaultUserId]

\* flight_duration_minutes, GENERATED ALWAYS AS (landing - takeoff) in minutes
flight_duration_minutes(row) == row.landing_time - row.takeoff_time

CrewRow(id, person, position, other) ==
    [sortie_id |-> id, personnel_id |-> person, crew_position |-> position,
     crew_position_other |-> other]

PassengerRow(id, type, cat) ==
    [sortie_id |-> id, passenger_type |-> passengerTypeMap[type],
     onload_count |-> OrNumber(cat.onload, 0), offload_count |-> OrNumber(cat.offload, 0),
     notes |-> OrText(cat.notes, Null)]

CargoRow(id, g) ==
    [sortie_id |-> id, onload_weight |-> OrNumber(g.onloadWeight, 0),
     offload_weight |-> OrNumber(g.offloadWeight, 0),
     cargo_description |-> OrText(g.description, Null),
     hazmat_onboard |-> OrBool(g.hazmat, FALSE),
     special_handling |-> OrText(g.specialHandling, Null)]

\* ---- constraints: the violation an INSERT raises, NoError when none -------
\* CHECK constraints come first, then the unique index, then the foreign keys
\* the check with >= for >
valid_flight_times_OrEqual(row) == row.landing_time >= row.takeoff_time

valid_flight_times(row) == row.landing_time > row.takeoff_time

SortieCheckError(row) ==
    IF row.mission_type \notin MissionTypes THEN "sorties_mission_type_check"
    ELSE IF row.sortie_status \notin SortieStatuses THEN "sorties_sortie_status_check"
    ELSE IF ~valid_flight_times(row) THEN "valid_flight_times"
    ELSE NoError

\* sortie_number without its unique index
SortieNumberTaken_NoIndex(row, rows) == FALSE

SortieNumberTaken(row, rows) == \E r \in rows : r.sortie_number = row.sortie_number

SortieInsertError(row, rows) ==
    IF SortieCheckError(row) # NoError THEN SortieCheckError(row)
    ELSE IF SortieNumberTaken(row, rows) THEN "sorties_sortie_number_key"
    ELSE IF row.aircraft_id \notin AircraftIds THEN "sorties_aircraft_id_fkey"
    ELSE IF row.arrival_location_id \notin LocationIds THEN "sorties_arrival_location_id_fkey"
    ELSE IF row.departure_location_id \notin LocationIds
         THEN "sorties_departure_location_id_fkey"
    ELSE NoError

\* sortie_crew without UNIQUE(sortie_id, personnel_id)
CrewPersonTaken_NoIndex(row, rows) == FALSE

CrewPersonTaken(row, rows) ==
    \E r \in rows : r.sortie_id = row.sortie_id /\ r.personnel_id = row.personnel_id

CrewInsertError(row, rows) ==
    IF row.crew_position = "Other" /\ row.crew_position_other = Null
    THEN "sortie_crew_check"
    ELSE IF row.crew_position \notin CrewPositions THEN "sortie_crew_crew_position_check"
    ELSE IF CrewPersonTaken(row, rows) THEN "sortie_crew_sortie_id_personnel_id_key"
    ELSE IF row.personnel_id \notin PersonnelIds THEN "sortie_crew_personnel_id_fkey"
    ELSE NoError

\* a passenger table without its constraints
PassengerInsertError_NoConstraints(row, rows) == NoError

PassengerInsertError(row, rows) ==
    IF row.offload_count < 0 THEN "sortie_passengers_offload_count_check"
    ELSE IF row.onload_count < 0 THEN "sortie_passengers_onload_count_check"
    ELSE IF row.passenger_type \notin PassengerTypeNames
         THEN "sortie_passengers_passenger_type_check"
    ELSE IF \E r \in rows : r.sortie_id = row.sortie_id
                            /\ r.passenger_type = row.passenger_type
         THEN "sortie_passengers_sortie_id_passenger_type_key"
    ELSE NoError

CargoInsertError(row) ==
    IF row.offload_weight < 0 THEN "sortie_cargo_offload_weight_check"
    ELSE IF row.onload_weight < 0 THEN "sortie_cargo_onload_weight_check"
    ELSE NoError

\* ------------------------------------------------------------------------
\* POST /api/sorties: where the handler goes after a statement.  The code
\* between two awaits runs without interleaving: the slots and categories
\* the payload leaves out are skipped, and reading a property of a section
\* that is undefined throws a TypeError into the catch block.
\* ------------------------------------------------------------------------
At(pc, i) == [pc |-> pc, idx |-> i, err |-> NoError]
Throw == [pc |-> "catch", idx |-> 0, err |-> TypeError]

FixedSlots == <<"pic", "sic", "oi">>
FixedPositions == <<"PIC", "SIC", "O/I">>

\* cargo.onloadWeight || 0, ...
CargoStep(p) == IF ~p.cargo.defined THEN Throw ELSE At("cargo", 0)

\* for (const type of passengerTypes) if (passengers[type]) ...
RECURSIVE PassengerStep(_, _)
PassengerStep(p, j) ==
    IF j > Len(passengerTypes) THEN CargoStep(p)
    ELSE IF ~p.passengers.defined THEN Throw
    ELSE IF p.passengers[passengerTypes[j]].defined THEN At("passengers", j)
    ELSE PassengerStep(p, j + 1)

\* if (crew.pic && crew.pic.name) ... for (const member of crew.additional)
RECURSIVE CrewStep(_, _)
CrewStep(p, i) ==
    IF ~p.crew.defined THEN Throw
    ELSE IF i <= Len(FixedSlots)
         THEN IF p.crew[FixedSlots[i]].defined /\ TruthyNumber(p.crew[FixedSlots[i]].name)
              THEN At("crew", i)
              ELSE CrewStep(p, i + 1)
    ELSE IF i - Len(FixedSlots) <= Len(p.crew.additional)
         THEN IF TruthyNumber(p.crew.additional[i - Len(FixedSlots)].name)
              THEN At("crew", i)
              ELSE CrewStep(p, i + 1)
    ELSE PassengerStep(p, 1)

\* the parameters of the sortie INSERT read sortie.missionType, ...
SortieStep(p) == IF ~p.sortie.defined THEN Throw ELSE At("insert_sortie", 0)

\* the crew row of position i of the payload
CrewRowAt(id, p, i) ==
    IF i <= Len(FixedSlots)
    THEN CrewRow(id, p.crew[FixedSlots[i]].name, FixedPositions[i], Null)
    ELSE CrewRow(id, p.crew.additional[i - Len(FixedSlots)].name, "Other",
                 Param(p.crew.additional[i - Len(FixedSlots)].position))

\* ---- the trigger of sorties that keeps the aircraft hours ------------------
\* n / d rounded to the nearest integer, halves away from zero (n, d >= 0)
RoundDiv(n, d) == (2 * n + d) \div (2 * d)

\* total_flight_hours + (minutes / 60.0), stored back into DECIMAL(10,2)
AddFlightHours(total, minutes) ==
    total + RoundDiv(minutes * HoursScale, MinutesPerHour)

\* CREATE TRIGGER ... AFTER UPDATE ON sorties ... WHEN (NEW.sortie_status = 'Completed')
trg_update_aircraft_hours(old, new) == new.sortie_status = "Completed"

\* a trigger created AFTER INSERT OR UPDATE ON sorties
trg_update_aircraft_hours_events_InsertOrUpdate == {"INSERT", "UPDATE"}

\* CREATE TRIGGER trg_update_aircraft_hours AFTER UPDATE ON sorties
trg_update_aircraft_hours_events == {"UPDATE"}

\* the aircraft rows an INSERT INTO sorties of `row` updates through the
\* trigger: none, unless the trigger is created for INSERT
InsertAccrual(row, ac) ==
    IF "INSERT" \in trg_update_aircraft_hours_events /\ trg_update_aircraft_hours(row, row)
    THEN {[aircraft_id |-> row.aircraft_id,
           total_flight_hours |->
                AddFlightHours(ac[row.aircraft_id], flight_duration_minutes(row))]}
    ELSE {}

\* the aircraft table once the aircraft rows a transaction updated are committed
CommittedHours(ac, own) ==
    [a \in DOMAIN ac |->
        IF \E u \in own : u.aircraft_id = a
        THEN (CHOOSE u \in own : u.aircraft_id = a).total_flight_hours
        ELSE ac[a]]

\* ---- the transaction of a call -------------------------------------------
InFlight(c) == call[c].pc \notin {"idle", "done"}

Goto(c, step) ==
    [call[c] EXCEPT !.pc = step.pc, !.idx = step.idx, !.err = step.err]

\* a statement raised an error: the transaction is aborted, and stays so
\* until ROLLBACK; the handler is in its catch block
Raise(c, message) ==
    [call[c] EXCEPT !.pc = "catch", !.idx = 0, !.err = message,
                    !.txn = IF @ = "open" THEN "aborted" ELSE @]

\* the connection broke under a statement: the statement fails, the server
\* closes the session, and with it the transaction and what it wrote
Lose(c) ==
    [Raise(c, ConnectionError) EXCEPT !.conn = "lost", !.tx = EmptyTx,
                                      !.txn = IF @ = "aborted" THEN "closed" ELSE @]

\* what a statement of call c sees of a table: the committed rows and the
\* rows of its own transaction (READ COMMITTED)
Visible(committed, own) == committed \cup own

\* the rows COMMIT makes visible to everyone
Committed(committed, own) == committed \cup own

\* a handler that returns and keeps its connection
Done_NoRelease(c, response, txn, conn) ==
    [IdleCall EXCEPT !.pc = "done", !.response = response, !.txn = txn,
                     !.conn = conn, !.released = call[c].released,
                     !.sortieNumber = IF response.status = 201 THEN <<>>
                                      ELSE call[c].sortieNumber,
                     !.epoch = IF response.status = 201 THEN 0 ELSE call[c].epoch,
                     !.err = call[c].err]

\* the handler has returned through finally { client.release() }: its locals
\* are gone, its outcome stays
Done(c, response, txn, conn) ==
    [IdleCall EXCEPT !.pc = "done", !.response = response, !.txn = txn,
                     !.conn = conn, !.released = call[c].released + 1,
                     !.sortieNumber = IF response.status = 201 THEN <<>>
                                      ELSE call[c].sortieNumber,
                     !.epoch = IF response.status = 201 THEN 0 ELSE call[c].epoch,
                     !.err = call[c].err]

\* const client = await pool.connect(), with the request's body
Connect(c, payloads) ==
    /\ call[c].pc = "idle"
    /\ \A d \in CallIds : d < c => call[d].pc # "idle"
    /\ \E p \in payloads :
        call' = [call EXCEPT ![c] = [@ EXCEPT !.pc = "begin", !.payload = p,
                                                 !.conn = "ok"]]
    /\ UNCHANGED <<tables, aircraft, sortie_id_seq, year, commits, updates, get>>

\* pool.connect() rejects (store unreachable, pool exhausted for
\* connectionTimeoutMillis): the call is outside the try block, the handler's
\* promise rejects
ConnectFail(c) ==
    /\ call[c].pc = "idle"
    /\ \A d \in CallIds : d < c => call[d].pc # "idle"
    /\ \E response \in Unhandled :
        call' = [call EXCEPT ![c] = [@ EXCEPT !.pc = "done", !.err = ConnectionError,
                                                 !.response = response]]
    /\ UNCHANGED <<tables, aircraft, sortie_id_seq, year, commits, updates, get>>

\* await client.query('BEGIN')
Begin(c) ==
    /\ call[c].pc = "begin"
    /\ \E up \in BOOLEAN :
        call' = [call EXCEPT ![c] =
            IF ~up THEN Lose(c)
            ELSE [Goto(c, At("generate", 0)) EXCEPT !.txn = "open"]]
    /\ UNCHANGED <<tables, aircraft, sortie_id_seq, year, commits, updates, get>>

\* await client.query('SELECT generate_sortie_number()')
Generate(c) ==
    /\ call[c].pc = "generate"
    /\ \E up \in BOOLEAN :
        call' = [call EXCEPT ![c] =
            IF ~up THEN Lose(c)
            ELSE [Goto(c, SortieStep(call[c].payload)) EXCEPT
                    !.sortieNumber = generate_sortie_number(
                                        Visible(sorties, call[c].tx.sorties), year),
                    !.epoch = commits]]
    /\ UNCHANGED <<tables, aircraft, sortie_id_seq, year, commits, updates, get>>

\* the sortie rows other transactions have inserted and neither committed
\* nor rolled back: an INSERT of the same sortie_number waits on the unique
\* index for them
Uncommitted(c) ==
    UNION {call[d].tx.sorties :
            d \in {x \in CallIds : x # c /\ call[x].txn \in {"open", "aborted"}}}

\* a unique index that does not wait for the rows of open transactions
WaitsForNumber_NoWait(c, row) == FALSE

WaitsForNumber(c, row) ==
    /\ SortieCheckError(row) = NoError
    /\ SortieNumberTaken(row, Uncommitted(c))

\* await client.query('INSERT INTO sorties ... RETURNING sortie_id')
InsertSortie(c) ==
    /\ call[c].pc = "insert_sortie"
    /\ \E up \in BOOLEAN :
        IF ~up
        THEN /\ call' = [call EXCEPT ![c] = Lose(c)]
             /\ UNCHANGED sortie_id_seq
        ELSE LET row == SortieRow(sortie_id_seq, call[c].sortieNumber,
                                  call[c].payload.sortie)
                 error == SortieInsertError(row, Visible(sorties, call[c].tx.sorties))
             IN  /\ ~WaitsForNumber(c, row)
                 /\ sortie_id_seq' = sortie_id_seq + 1
                 /\ call' = [call EXCEPT ![c] =
                        IF error # NoError THEN Raise(c, error)
                        ELSE [Goto(c, CrewStep(call[c].payload, 1)) EXCEPT
                                !.sortieId = row.sortie_id,
                                !.tx.sorties = @ \cup {row},
                                !.tx.aircraft = InsertAccrual(row, aircraft)]]
    /\ UNCHANGED <<tables, aircraft, year, commits, updates, get>>

\* await client.query('INSERT INTO sortie_crew ...')
InsertCrew(c) ==
    /\ call[c].pc = "crew"
    /\ \E up \in BOOLEAN :
        LET row == CrewRowAt(call[c].sortieId, call[c].payload, call[c].idx)
            error == CrewInsertError(row, Visible(sortie_crew, call[c].tx.crew))
        IN  call' = [call EXCEPT ![c] =
                IF ~up THEN Lose(c)
                ELSE IF error # NoError THEN Raise(c, error)
                ELSE [Goto(c, CrewStep(call[c].payload, call[c].idx + 1)) EXCEPT
                        !.tx.crew = @ \cup {row}]]
    /\ UNCHANGED <<tables, aircraft, sortie_id_seq, year, commits, updates, get>>

\* await client.query('INSERT INTO sortie_passengers ...')
InsertPassengers(c) ==
    /\ call[c].pc = "passengers"
    /\ \E up \in BOOLEAN :
        LET type == passengerTypes[call[c].idx]
            row == PassengerRow(call[c].sortieId, type, call[c].payload.passengers[type])
            error == PassengerInsertError(
                        row, Visible(sortie_passengers, call[c].tx.passengers))
        IN  call' = [call EXCEPT ![c] =
                IF ~up THEN Lose(c)
                ELSE IF error # NoError THEN Raise(c, error)
                ELSE [Goto(c, PassengerStep(call[c].payload, call[c].idx + 1)) EXCEPT
                        !.tx.passengers = @ \cup {row}]]
    /\ UNCHANGED <<tables, aircraft, sortie_id_seq, year, commits, updates, get>>

\* await client.query('INSERT INTO sortie_cargo ...')
InsertCargo(c) ==
    /\ call[c].pc = "cargo"
    /\ \E up \in BOOLEAN :
        LET row == CargoRow(call[c].sortieId, call[c].payload.cargo)
            error == CargoInsertError(row)
        IN  call' = [call EXCEPT ![c] =
                IF ~up THEN Lose(c)
                ELSE IF error # NoError THEN Raise(c, error)
                ELSE [Goto(c, At("commit", 0)) EXCEPT !.tx.cargo = @ \cup {row}]]
    /\ UNCHANGED <<tables, aircraft, sortie_id_seq, year, commits, updates, get>>

\* await client.query('COMMIT'); res.status(201).json(...); finally release.
\* A COMMIT that reports an error has committed nothing.
Commit(c) ==
    /\ call[c].pc = "commit"
    /\ \E up \in BOOLEAN :
        IF ~up
        THEN /\ call' = [call EXCEPT ![c] = [Lose(c) EXCEPT !.ends = <<"COMMIT">>]]
             /\ UNCHANGED <<tables, aircraft, commits>>
        ELSE /\ sorties' = Committed(sorties, call[c].tx.sorties)
             /\ sortie_crew' = Committed(sortie_crew, call[c].tx.crew)
             /\ sortie_passengers' = Committed(sortie_passengers, call[c].tx.passengers)
             /\ sortie_cargo' = Committed(sortie_cargo, call[c].tx.cargo)
             /\ aircraft' = CommittedHours(aircraft, call[c].tx.aircraft)
             /\ commits' = commits + 1
             /\ call' = [call EXCEPT ![c] =
                    [Done(c, Created(call[c].sortieId, call[c].sortieNumber),
                          "committed", "ok") EXCEPT !.ends = <<"COMMIT">>]]
    /\ UNCHANGED <<sortie_id_seq, year, updates, get>>

\* ROLLBACK that leaves the rows of the transaction in the table
RolledBack_KeepsRows(committed, own) == committed \cup own

\* the rows of a table after ROLLBACK of a transaction that wrote `own`
RolledBack(committed, own) == committed

\* a catch block that answers and releases without ROLLBACK
Rollback_ReleaseOnly(c) ==
    /\ call[c].pc = "catch"
    /\ call' = [call EXCEPT ![c] = Done(c, Failed(call[c].err), call[c].txn, call[c].conn)]
    /\ UNCHANGED <<tables, aircraft, sortie_id_seq, year, commits, updates, get>>

\* catch (err): await client.query('ROLLBACK'); res.status(500).json(...);
\* finally release.  A ROLLBACK that fails, as every ROLLBACK on a broken
\* connection does, throws out of the catch block: the finally block still
\* runs, res.status(500) is not reached and the handler's promise rejects.
Rollback(c) ==
    /\ call[c].pc = "catch"
    /\ \E up \in {call[c].conn = "ok", FALSE} :
        IF ~up
        THEN /\ \E response \in Unhandled :
                call' = [call EXCEPT ![c] =
                    [Done(c, response, Lose(c).txn, "lost") EXCEPT
                        !.ends = Append(call[c].ends, "ROLLBACK")]]
             /\ UNCHANGED tables
        ELSE /\ sorties' = RolledBack(sorties, call[c].tx.sorties)
             /\ sortie_crew' = RolledBack(sortie_crew, call[c].tx.crew)
             /\ sortie_passengers' = RolledBack(sortie_passengers, call[c].tx.passengers)
             /\ sortie_cargo' = RolledBack(sortie_cargo, call[c].tx.cargo)
             /\ call' = [call EXCEPT ![c] =
                    [Done(c, Failed(call[c].err), "rolledback", "ok") EXCEPT
                        !.ends = Append(call[c].ends, "ROLLBACK")]]
    /\ UNCHANGED <<aircraft, sortie_id_seq, year, commits, updates, get>>

\* CURRENT_DATE passes into the next year
NewYear ==
    /\ year - FirstYear < MaxYearChanges
    /\ year' = year + 1
    /\ UNCHANGED <<tables, aircraft, sortie_id_seq, call, commits, updates, get>>

\* ------------------------------------------------------------------------
\* UPDATE sorties SET sortie_status = .., landing_time = .. WHERE sortie_id = ..
\* with trg_update_aircraft_hours, which runs inside the UPDATE statement
\* ------------------------------------------------------------------------
\* the trigger function without its test of OLD
FiresAccrual_NoOldCheck(old, new) == new.sortie_status = "Completed"

\* IF NEW.sortie_status = 'Completed' AND OLD.sortie_status != 'Completed'
FiresAccrual(old, new) ==
    new.sortie_status = "Completed" /\ old.sortie_status # "Completed"

\* update_aircraft_flight_hours(): the aircraft table after the trigger
update_aircraft_flight_hours(old, new, ac) ==
    IF FiresAccrual(old, new)
    THEN [ac EXCEPT ![new.aircraft_id] = AddFlightHours(@, flight_duration_minutes(new))]
    ELSE ac

UpdateSortie(id, status, landing) ==
    /\ updates < MaxUpdates
    /\ \E old \in sorties :
        /\ old.sortie_id = id
        /\ LET new == [old EXCEPT !.sortie_status = status, !.landing_time = landing]
           IN  IF SortieCheckError(new) # NoError
               THEN UNCHANGED <<sorties, aircraft>>
               ELSE /\ sorties' = (sorties \ {old}) \cup {new}
                    /\ aircraft' = IF trg_update_aircraft_hours(old, new)
                                   THEN update_aircraft_flight_hours(old, new, aircraft)
                                   ELSE aircraft
    /\ updates' = updates + 1
    /\ UNCHANGED <<sortie_crew, sortie_passengers, sortie_cargo, sortie_id_seq, year,
                   call, commits, get>>

\* ------------------------------------------------------------------------
\* DELETE FROM sorties WHERE sortie_id = ..: the three tables that reference
\* sorties(sortie_id) do so ON DELETE CASCADE, and the rows they lose go in
\* the statement that deletes the sortie row
\* ------------------------------------------------------------------------
\* a foreign key that lets the referencing rows stay
OnDeleteCascade_KeepsRows(rows, id) == rows

\* REFERENCES sorties(sortie_id) ON DELETE CASCADE
OnDeleteCascade(rows, id) == {r \in rows : r.sortie_id # id}

DeleteSortie(id) ==
    /\ \E r \in sorties : r.sortie_id = id
    /\ sorties' = {r \in sorties : r.sortie_id # id}
    /\ sortie_crew' = OnDeleteCascade(sortie_crew, id)
    /\ sortie_passengers' = OnDeleteCascade(sortie_passengers, id)
    /\ sortie_cargo' = OnDeleteCascade(sortie_cargo, id)
    /\ UNCHANGED <<aircraft, sortie_id_seq, year, call, commits, updates, get>>

\* ------------------------------------------------------------------------
\* GET /api/sorties/<segment>: the fetch of one sortie and the search
\* ------------------------------------------------------------------------
IdPattern == <<":", "i", "d">>
SearchSegment == <<"s", "e", "a", "r", "c", "h">>

\* app.get('/api/sorties/:id', ...) and app.get('/api/sorties/search', ...),
\* in the order they are registered
Routes ==
    <<[handler |-> "fetch", segment |-> IdPattern],
      [handler |-> "search", segment |-> SearchSegment]>>

\* a route parameter matches every segment, a literal matches itself
Matches(pattern, segment) ==
    IF pattern[1] = ":" THEN segment # <<>> ELSE pattern = segment

\* the router hands the request to the first registered route that matches
Route(segment) ==
    LET hits == {i \in 1..Len(Routes) : Matches(Routes[i].segment, segment)}
    IN  IF hits = {} THEN "none"
        ELSE Routes[CHOOSE i \in hits : \A j \in hits : i <= j].handler

\* the text is accepted as an integer parameter
IsInteger(s) == s # <<>> /\ \A i \in 1..Len(s) : \E d \in 1..10 : Digits[d] = s[i]

\* req.query of a search: the filters given with a non-empty value
QueryOf(given, a, l, m, d1, d2, n) ==
    [given |-> given, aircraft |-> a, location |-> l, missionType |-> m,
     startDate |-> d1, endDate |-> d2, sortieNumber |-> n]
NoQuery == QueryOf({}, 0, 0, "", 0, 0, <<>>)

\* ILIKE compares without case
Fold(s) == [i \in 1..Len(s) |-> IF s[i] = "S" THEN "s" ELSE s[i]]

\* text ILIKE '%' || sub || '%'
Contains(text, sub) ==
    \E i \in 0..(Len(text) - Len(sub)) :
        SubSeq(Fold(text), i + 1, i + Len(sub)) = Fold(sub)

\* ORDER BY takeoff_time DESC LIMIT n
Limit(rows, n) ==
    IF Cardinality(rows) <= n THEN rows
    ELSE CHOOSE top \in SUBSET rows :
            /\ Cardinality(top) = n
            /\ \A x \in top, y \in rows \ top : x.takeoff_time >= y.takeoff_time

\* the WHERE clause the search handler builds: one AND term per filter given.
\* An aircraft and a location stand for their tail number and their code.
SearchRows(rows, q) ==
    Limit({r \in rows :
            /\ "aircraft" \in q.given => r.aircraft_id = q.aircraft
            /\ "location" \in q.given =>
                    (r.departure_location_id = q.location
                     \/ r.arrival_location_id = q.location)
            /\ "missionType" \in q.given => r.mission_type = q.missionType
            /\ "startDate" \in q.given => r.takeoff_time >= q.startDate
            /\ "endDate" \in q.given => r.takeoff_time <= q.endDate
            /\ "sortieNumber" \in q.given => Contains(r.sortie_number, q.sortieNumber)},
          SearchLimit)

NoGetResponse ==
    [status |-> 0, error |-> "", sortie |-> {}, crew |-> {}, passengers |-> {},
     cargo |-> {}, rows |-> {}]

\* res.status(404).json({ error: 'Sortie not found' })
NotFound == [NoGetResponse EXCEPT !.status = 404, !.error = "Sortie not found"]

\* res.status(500).json({ error: 'Failed to fetch sortie details' })
FetchFailed ==
    [NoGetResponse EXCEPT !.status = 500, !.error = "Failed to fetch sortie details"]

\* res.status(500).json({ error: 'Failed to search sorties' })
SearchFailed == [NoGetResponse EXCEPT !.status = 500, !.error = "Failed to search sorties"]

\* res.json(result.rows)
Found(rows) == [NoGetResponse EXCEPT !.status = 200, !.rows = rows]

\* the error of a query whose integer parameter is not an integer
InvalidInteger == "invalid input syntax for type integer"

IdleGet ==
    [pc |-> "idle", segment |-> <<>>, query |-> NoQuery, n |-> 0, err |-> NoError,
     response |-> NoGetResponse]

\* a statement that reads the rows other transactions have not committed
Snapshot_Dirty(committed, uncommitted) == committed \cup uncommitted

\* what a statement of pool.query sees of a table: the committed rows
Snapshot(committed, uncommitted) == committed

\* the rows that transactions in progress have written to a table
InProgress(table) == UNION {call[c].tx[table] : c \in CallIds}

\* the requests of the model: a sortie identifier, a word, or the search
Segments == {ToText(i) : i \in 1..MaxFetchId} \cup {<<"x">>, SearchSegment}
Queries ==
    {NoQuery,
     QueryOf({"aircraft", "sortieNumber"}, 1, 0, "", 0, 0, <<"-", "0", "0", "0", "1">>)}

\* a GET request arrives and is routed; the search handler has one query
Get(segment, q) ==
    /\ get.pc \in {"idle", "done"}
    /\ get.n < MaxReads
    /\ segment # SearchSegment => q = NoQuery
    /\ \E up \in BOOLEAN :
        get' = [IdleGet EXCEPT
                    !.segment = segment, !.query = q, !.n = get.n + 1,
                    !.pc = IF Route(segment) = "fetch" THEN "sortie" ELSE "done",
                    !.response =
                        IF Route(segment) = "fetch" THEN NoGetResponse
                        ELSE IF up
                        THEN Found(SearchRows(Snapshot(sorties, InProgress("sorties")), q))
                        ELSE SearchFailed,
                    !.err = IF Route(segment) # "fetch" /\ ~up THEN ConnectionError
                            ELSE NoError]
    /\ UNCHANGED <<tables, aircraft, sortie_id_seq, year, call, commits, updates>>

\* a query of the fetch failed: catch (err) answers 500
GetThrow(message) ==
    [get EXCEPT !.pc = "done", !.response = FetchFailed, !.err = message]

\* SELECT * FROM vw_sorties_complete WHERE sortie_id = $1, and the 404.
\* The columns the view joins in from other tables are left out.
FetchSortie ==
    /\ get.pc = "sortie"
    /\ \E up \in BOOLEAN :
        LET rows == {r \in Snapshot(sorties, InProgress("sorties")) :
                        r.sortie_id = CastInteger(get.segment)}
        IN  get' = IF ~up THEN GetThrow(ConnectionError)
                   ELSE IF ~IsInteger(get.segment) THEN GetThrow(InvalidInteger)
                   ELSE IF rows = {}
                   THEN [get EXCEPT !.pc = "done", !.response = NotFound]
                   ELSE [get EXCEPT !.pc = "crew", !.response.sortie = rows]
    /\ UNCHANGED <<tables, aircraft, sortie_id_seq, year, call, commits, updates>>

\* SELECT ... FROM sortie_crew sc JOIN personnel p ... WHERE sc.sortie_id = $1
FetchCrew ==
    /\ get.pc = "crew"
    /\ \E up \in BOOLEAN :
        get' = IF ~up THEN GetThrow(ConnectionError)
               ELSE [get EXCEPT !.pc = "passengers", !.response.crew =
                        {r \in Snapshot(sortie_crew, InProgress("crew")) :
                            r.sortie_id = CastInteger(get.segment)}]
    /\ UNCHANGED <<tables, aircraft, sortie_id_seq, year, call, commits, updates>>

\* SELECT ... FROM sortie_passengers WHERE sortie_id = $1
FetchPassengers ==
    /\ get.pc = "passengers"
    /\ \E up \in BOOLEAN :
        get' = IF ~up THEN GetThrow(ConnectionError)
               ELSE [get EXCEPT !.pc = "cargo", !.response.passengers =
                        {r \in Snapshot(sortie_passengers, InProgress("passengers")) :
                            r.sortie_id = CastInteger(get.segment)}]
    /\ UNCHANGED <<tables, aircraft, sortie_id_seq, year, call, commits, updates>>

\* SELECT ... FROM sortie_cargo WHERE sortie_id = $1; res.json({sortie, crew,
\* passengers, cargo: cargoResult.rows[0] || null})
FetchCargo ==
    /\ get.pc = "cargo"
    /\ \E up \in BOOLEAN :
        get' = IF ~up THEN GetThrow(ConnectionError)
               ELSE [get EXCEPT !.pc = "done", !.response.status = 200,
                        !.response.cargo =
                            {r \in Snapshot(sortie_cargo, InProgress("cargo")) :
                                r.sortie_id = CastInteger(get.segment)}]
    /\ UNCHANGED <<tables, aircraft, sortie_id_seq, year, call, commits, updates>>

\* ------------------------------------------------------------------------
\* Initial states: a store that holds the sorties recorded so far
\* ------------------------------------------------------------------------
SeedNumber(yn) == NumberPrefix(yn[1]) \o LPad(ToText(yn[2]), PadWidth, "0")

SeedSorties(seed) ==
    {SortieRow(i, SeedNumber(seed[i]), BaseSortie) : i \in 1..Len(seed)}

InitWith(seeds) ==
    /\ \E seed \in seeds :
        /\ sorties = SeedSorties(seed)
        /\ sortie_crew = {CrewRowAt(i, BasePayload, 1) : i \in 1..Len(seed)}
        /\ sortie_passengers = {}
        /\ sortie_cargo = {CargoRow(i, EmptyCargo) : i \in 1..Len(seed)}
        /\ sortie_id_seq = Len(seed) + 1
    /\ aircraft = [a \in AircraftIds |-> 0]
    /\ year = FirstYear
    /\ call = [c \in CallIds |-> IdleCall]
    /\ commits = 0
    /\ updates = 0
    /\ get = IdleGet

ConcurrentSeeds == {<<>>, <<<<FirstYear, 1>>>>}

PayloadSeeds ==
    {<<>>,
     <<<<FirstYear - 1, 7>>>>,
     <<<<FirstYear, 1>>, <<FirstYear, 2>>>>,
     <<<<FirstYear, 1000>>, <<FirstYear, 9999>>>>}

\* two sorties recorded earlier, of different aircraft and durations
StoreSeed ==
    {SortieRow(1, SeedNumber(<<FirstYear, 1>>), SortieOf("Training", 1, 1, 2, 0, MinuteStep)),
     SortieRow(2, SeedNumber(<<FirstYear, 2>>),
               SortieOf("Lift", 2, 2, 1, MinuteStep, MaxTime * MinuteStep))}

NoneInFlight == \A c \in CallIds : ~InFlight(c)

\* ------------------------------------------------------------------------
\* Specifications
\* ------------------------------------------------------------------------
Step(c) ==
    \/ ConnectFail(c)
    \/ Begin(c)
    \/ Generate(c)
    \/ InsertSortie(c)
    \/ InsertCrew(c)
    \/ InsertPassengers(c)
    \/ InsertCargo(c)
    \/ Commit(c)
    \/ Rollback(c)

\* creation calls that overlap in every way
Init == InitWith(ConcurrentSeeds)
Next ==
    \E c \in CallIds : Connect(c, ConcurrentPayloads) \/ Step(c)
Spec == Init /\ [][Next]_vars

\* creation calls one after another, over every payload of the model, while
\* the calendar year may change
SequentialCallIds == 1 .. MaxSequentialCalls
InitPayload == InitWith(PayloadSeeds)
NextPayload ==
    \/ \E c \in SequentialCallIds :
        (NoneInFlight /\ Connect(c, Payloads)) \/ Step(c)
    \/ NewYear
SpecPayload == InitPayload /\ [][NextPayload]_vars

\* updates of the sorties recorded
InitStore ==
    /\ sorties = StoreSeed
    /\ sortie_crew = {CrewRowAt(r.sortie_id, BasePayload, 1) : r \in StoreSeed}
    /\ sortie_passengers = {}
    /\ sortie_cargo = {CargoRow(r.sortie_id, EmptyCargo) : r \in StoreSeed}
    /\ sortie_id_seq = Cardinality(StoreSeed) + 1
    /\ aircraft = [a \in AircraftIds |-> 0]
    /\ year = FirstYear
    /\ call = [c \in CallIds |-> IdleCall]
    /\ commits = 0
    /\ updates = 0
    /\ get = IdleGet
NextStore ==
    \E r \in sorties, status \in SortieStatuses, landing \in Times :
        UpdateSortie(r.sortie_id, status, landing)
SpecStore == InitStore /\ [][NextStore]_vars

\* creation calls that overlap with each other and with GET requests
ReadPayloads == {BasePayload, [BasePayload EXCEPT !.cargo = NoCargo]}
InitRead == InitWith(ConcurrentSeeds)
NextRead ==
    \/ \E c \in SequentialCallIds : Connect(c, ReadPayloads) \/ Step(c)
    \/ \E segment \in Segments, q \in Queries : Get(segment, q)
    \/ FetchSortie
    \/ FetchCrew
    \/ FetchPassengers
    \/ FetchCargo
SpecRead == InitRead /\ [][NextRead]_vars

\* creation calls and deletions of the sorties recorded
OwnershipSeeds ==
    {<<>>, <<<<FirstYear, 1>>>>, <<<<FirstYear, 1>>, <<FirstYear, 2>>>>}
InitOwnership == InitWith(OwnershipSeeds)
NextOwnership ==
    \/ \E c \in SequentialCallIds : Connect(c, ReadPayloads) \/ Step(c)
    \/ \E r \in sorties : DeleteSortie(r.sortie_id)
SpecOwnership == InitOwnership /\ [][NextOwnership]_vars

\* creation calls that overlap in every way, while the calendar year may
\* change.  The store they start from was filled by creation calls, so its
\* numbers of a year are 0001 up to the highest: it is empty, holds the first
\* sortie of the year, or is one sortie short of the end of the four-digit
\* range.  Of that last store the model keeps the rows a derivation can meet:
\* the highest, and 1000, the number LPAD cuts 10000 to.
NumberingSeeds ==
    {<<>>, <<<<FirstYear, 1>>>>, <<<<FirstYear, 1000>>, <<FirstYear, 9998>>>>}
NumberingPayloads == {BasePayload}
InitNumbering == InitWith(NumberingSeeds)
NextNumbering ==
    \/ \E c \in CallIds : Connect(c, NumberingPayloads) \/ Step(c)
    \/ NewYear
SpecNumbering == InitNumbering /\ [][NextNumbering]_vars

\* ------------------------------------------------------------------------
\* Properties
\* ------------------------------------------------------------------------
\* call c returns in this step
Returns(c) == InFlight(c) /\ call'[c].pc = "done"

UsedNumbers(rows) == {r.sortie_number : r \in rows}

\* C1: the committed rows of the four tables, and so the set of used sortie
\* numbers, change only in the step in which a call commits and answers 201:
\* a call that fails at any step, in its sortie, crew, passenger or cargo
\* insert or in COMMIT, leaves them in every one of its steps as they were,
\* and so does every repetition of it.
C1_Atomicity ==
    [][ /\ (tables' # tables \/ UsedNumbers(sorties') # UsedNumbers(sorties))
            => \E c \in CallIds :
                /\ call[c].pc = "commit" /\ call'[c].response.status = 201
                /\ sorties' = sorties \cup call[c].tx.sorties
                /\ sortie_crew' = sortie_crew \cup call[c].tx.crew
                /\ sortie_passengers' = sortie_passengers \cup call[c].tx.passengers
                /\ sortie_cargo' = sortie_cargo \cup call[c].tx.cargo
        /\ \A c \in CallIds :
            (Returns(c) /\ call'[c].response.status # 201) =>
                /\ tables' = tables
                /\ \A r \in sorties' : r.sortie_id # call[c].sortieId ]_vars

\* two calls with the same payload have failed in their cargo insert, after
\* their sortie, crew and passenger rows were inserted, and no row of any
\* table is committed
C1_Witness ==
    /\ sorties = {} /\ sortie_crew = {} /\ sortie_passengers = {} /\ sortie_cargo = {}
    /\ sortie_id_seq > 2
    /\ \E c, d \in CallIds :
        /\ c # d
        /\ call[c].pc = "done" /\ call[d].pc = "done"
        /\ call[c].response.status = 500 /\ call[d].response.status = 500
        /\ call[c].err = "sortie_cargo_onload_weight_check"
        /\ call[c].err = call[d].err

\* C2: no two committed sortie rows carry the same sortie number, and within
\* one year no two carry the same sequence number.
C2_UniqueNumbers ==
    \A r1, r2 \in sorties :
        r1 # r2 =>
            /\ r1.sortie_number # r2.sortie_number
            /\ \A y \in FirstYear..(FirstYear + MaxYearChanges) :
                (LikePrefix(r1.sortie_number, NumberPrefix(y))
                 /\ LikePrefix(r2.sortie_number, NumberPrefix(y)))
                    => SeqNumber(r1.sortie_number) # SeqNumber(r2.sortie_number)

\* two overlapping calls derived the same number: one committed it, the other
\* was refused by the unique index
C2_Witness ==
    \E c, d \in CallIds :
        /\ call[c].pc = "done" /\ call[c].response.status = 201
        /\ call[d].pc = "done" /\ call[d].err = "sorties_sortie_number_key"
        /\ call[d].sortieNumber = call[c].response.sortieNumber

\* a payload the store accepts when it is submitted alone
ValidPayload(p) ==
    /\ p.sortie.defined /\ p.crew.defined /\ p.passengers.defined /\ p.cargo.defined
    /\ SortieInsertError(SortieRow(0, <<>>, p.sortie), {}) = NoError
    /\ p.crew = BaseCrew /\ p.passengers = BasePassengers /\ p.cargo = EmptyCargo

\* C3: creation calls with valid payloads that overlap all succeed, with
\* pairwise distinct numbers: none of them, on a healthy connection, ends in
\* the catch block.
C3_AllOverlappingCallsSucceed ==
    /\ \A c \in CallIds :
        (ValidPayload(call[c].payload) /\ call[c].conn = "ok") => call[c].pc # "catch"
    /\ \A c, d \in CallIds :
        (c # d /\ call[c].response.status = 201 /\ call[d].response.status = 201)
            => call[c].response.sortieNumber # call[d].response.sortieNumber

\* ---- the number format, computed from the digits of the number -----------
RECURSIVE Pow10(_)
Pow10(k) == IF k = 0 THEN 1 ELSE 10 * Pow10(k - 1)

RECURSIVE NumDigits(_)
NumDigits(n) == IF n < 10 THEN 1 ELSE 1 + NumDigits(n \div 10)

DigitsOf(n, w) == [i \in 1..w |-> Digits[((n \div Pow10(w - i)) % 10) + 1]]

\* n in decimal, with zeros on the left up to w digits
ZeroPadded(n, w) == DigitsOf(n, IF NumDigits(n) > w THEN NumDigits(n) ELSE w)

MaxSeqOfYear(rows, y) ==
    LET ns == {SeqNumber(r.sortie_number) :
                r \in {x \in rows : SubSeq(x.sortie_number, 1, 7)
                                        = <<"S", "-">> \o DigitsOf(y, 4) \o <<"-">>}}
    IN  IF ns = {} THEN 0 ELSE SetMax(ns)

ExpectedNumber(rows, y) ==
    <<"S", "-">> \o DigitsOf(y, 4) \o <<"-">> \o ZeroPadded(MaxSeqOfYear(rows, y) + 1, 4)

\* C4: a call that runs with no other creation in flight is assigned
\* S-<current year>-<k>, k the maximum committed sequence number of the
\* current year plus one, zero-padded to 4 digits (0001 when the year has no
\* sortie); sorties of other years do not count.
C4_NumberFormat ==
    [][\A c \in CallIds :
        (Generate(c) /\ call'[c].conn = "ok") =>
            call'[c].sortieNumber = ExpectedNumber(sorties, year)]_vars

\* C5: a call that derived number n and did not commit burns nothing: when no
\* other creation committed since it derived n, the next call that commits
\* with a number of the same year commits n.
C5_NoBurnedNumber ==
    [][\A c, d \in CallIds :
        ( /\ call[c].pc = "done"
          /\ call[c].response.status # 201
          /\ call[c].sortieNumber # <<>>
          /\ call[c].epoch = commits
          /\ call[d].pc = "commit" /\ call'[d].response.status = 201
          /\ SubSeq(call[d].sortieNumber, 1, 7) = SubSeq(call[c].sortieNumber, 1, 7) )
            => call'[d].response.sortieNumber = call[c].sortieNumber]_vars

\* a call derived a number and rolled back after inserting its sortie row,
\* and a later call committed that same number
C5_Witness ==
    \E c, d \in CallIds :
        /\ call[c].pc = "done" /\ call[c].response.status = 500
        /\ call[c].err = TypeError
        /\ call[c].epoch = 0 /\ commits = 1
        /\ call[d].pc = "done" /\ call[d].response.status = 201
        /\ call[d].response.sortieNumber = call[c].sortieNumber

\* a call with no other error than an insert refused by the store answers
Answered500(c) ==
    /\ call'[c].response.status = 500
    /\ ~call'[c].response.success

\* C6: a creation call whose landing time is not after its takeoff time
\* writes no row, never commits, and answers with a failure whenever its
\* connection is there to answer on; every committed sortie lands after it
\* takes off.
C6_Duration ==
    [][ /\ \A r \in sorties' : r.landing_time > r.takeoff_time
        /\ \A c \in CallIds :
            ( /\ InFlight(c)
              /\ call[c].payload.sortie.defined
              /\ call[c].payload.sortie.landingTime <= call[c].payload.sortie.takeoffTime )
            => /\ call[c].tx = EmptyTx
               /\ call[c].pc # "commit"
               /\ Returns(c) =>
                    /\ call'[c].response.status # 201
                    /\ tables' = tables
                    /\ call'[c].conn = "ok" => Answered500(c) ]_vars

C6_Witness ==
    \E c \in CallIds :
        /\ call[c].pc = "done"
        /\ call[c].response.status = 500
        /\ call[c].response.details = "valid_flight_times"

\* the personnel identifiers of the crew positions of a payload, in order
CrewNames(p) ==
    LET fixed == [i \in 1..3 |-> IF p.crew[FixedSlots[i]].defined
                                 THEN p.crew[FixedSlots[i]].name ELSE 0]
        more == [i \in 1..Len(p.crew.additional) |-> p.crew.additional[i].name]
    IN  fixed \o more

SamePersonTwice(p) ==
    /\ p.crew.defined
    /\ \E i, j \in 1..Len(CrewNames(p)) :
        i # j /\ CrewNames(p)[i] # 0 /\ CrewNames(p)[i] = CrewNames(p)[j]

\* C7: a creation call that names the same person in two crew positions never
\* commits, persists nothing and answers with a failure whenever its
\* connection is there to answer on; a person is at most once in the committed
\* crew of a sortie.
C7_CrewUnique ==
    [][ /\ \A r1, r2 \in sortie_crew' :
            (r1 # r2 /\ r1.sortie_id = r2.sortie_id) => r1.personnel_id # r2.personnel_id
        /\ \A c \in CallIds :
            (InFlight(c) /\ SamePersonTwice(call[c].payload))
            => /\ call[c].pc # "commit"
               /\ Returns(c) =>
                    /\ call'[c].response.status # 201
                    /\ tables' = tables
                    /\ call'[c].conn = "ok" => Answered500(c) ]_vars

C7_Witness ==
    \E c \in CallIds :
        /\ call[c].pc = "done"
        /\ call[c].response.status = 500
        /\ call[c].response.details = "sortie_crew_sortie_id_personnel_id_key"

\* ---- flight hours --------------------------------------------------------
\* this step is an UPDATE that takes the sortie old to new, into Completed
\* from another status
IntoCompleted(old, new) ==
    /\ updates' = updates + 1
    /\ old \in sorties /\ new \in sorties' /\ new \notin sorties
    /\ old.sortie_id = new.sortie_id
    /\ old.sortie_status # "Completed" /\ new.sortie_status = "Completed"

OthersUnchanged(a) == \A b \in AircraftIds : b # a => aircraft'[b] = aircraft[b]

Accrued(a) == aircraft'[a] - aircraft[a]

Abs(x) == IF x < 0 THEN 0 - x ELSE x

C9_ResponseMatchesOutcome ==
    [][\A c \in CallIds :
        Returns(c) =>
            /\ call'[c].response.status \in {0, 201, 500}
            /\ call'[c].response.status = 201 =>
                /\ call'[c].response.success
                /\ call[c].pc = "commit" /\ call'[c].txn = "committed"
                /\ \E r \in sorties' \ sorties :
                    /\ r.sortie_id = call'[c].response.sortieId
                    /\ r.sortie_number = call'[c].response.sortieNumber
            /\ call'[c].response.status # 201 =>
                /\ ~call'[c].response.success
                /\ call'[c].response.sortieNumber = <<>>
                /\ call'[c].response.sortieId = 0
                /\ call'[c].txn # "committed"
                /\ sorties' = sorties
            /\ (call[c].pc = "catch" /\ call'[c].conn = "ok") =>
                /\ call'[c].response.status = 500
                /\ call'[c].response.error # ""
                /\ call'[c].response.details = call[c].err
                /\ call[c].err # NoError ]_vars

\* one call has answered 201, another 500 with the violation it met
C9_Witness ==
    \E c, d \in CallIds :
        /\ call[c].pc = "done" /\ call[c].response.status = 201
        /\ call[d].pc = "done" /\ call[d].response.status = 500
        /\ call[d].response.details = "valid_flight_times"

\* the cargo section leaves out at least one field, or is left out
CargoIncomplete(g) ==
    \/ ~g.defined
    \/ g.onloadWeight = 0 \/ g.offloadWeight = 0 \/ g.description = ""
    \/ ~g.hazmat \/ g.specialHandling = ""

\* C10: a call whose payload is valid but for a cargo section that is absent
\* or incomplete succeeds, on a healthy connection, and commits exactly one
\* cargo row for its sortie, with 0, false and NULL for what is missing.
C10_CargoDefaults ==
    [][\A c \in CallIds :
        ( /\ Returns(c)
          /\ call'[c].conn = "ok"
          /\ call[c].payload.sortie = BaseSortie
          /\ call[c].payload.crew = BaseCrew
          /\ call[c].payload.passengers = BasePassengers
          /\ CargoIncomplete(call[c].payload.cargo)
          /\ call[c].payload.cargo.onloadWeight >= 0
          /\ call[c].err # "sorties_sortie_number_key" )
        => /\ call'[c].response.status = 201
           /\ \E g \in sortie_cargo' :
                /\ {x \in sortie_cargo' : x.sortie_id = call[c].sortieId} = {g}
                /\ g.onload_weight = call[c].payload.cargo.onloadWeight
                /\ g.offload_weight = call[c].payload.cargo.offloadWeight
                /\ g.hazmat_onboard = call[c].payload.cargo.hazmat
                /\ g.cargo_description = (IF call[c].payload.cargo.description = ""
                                          THEN Null ELSE call[c].payload.cargo.description)
                /\ g.special_handling = (IF call[c].payload.cargo.specialHandling = ""
                                         THEN Null ELSE call[c].payload.cargo.specialHandling)
        ]_vars

\* ---- the connection of a call ------------------------------------------
\* the calls that hold a connection of the pool
CheckedOut == {c \in CallIds : call[c].conn # "none" /\ call[c].released = 0}

\* C11: a call that obtained a connection holds it while it runs and has
\* released it exactly once when it has ended, whether it committed, rolled
\* back or failed in BEGIN, COMMIT or ROLLBACK; a call that obtained none
\* releases none; when no call is in flight no connection is checked out.
C11_ConnectionReleased ==
    /\ \A c \in CallIds :
        /\ InFlight(c) => (call[c].conn # "none" /\ call[c].released = 0)
        /\ call[c].pc = "done" =>
                call[c].released = (IF call[c].conn # "none" THEN 1 ELSE 0)
        /\ call[c].pc = "idle" => (call[c].conn = "none" /\ call[c].released = 0)
    /\ NoneInFlight => CheckedOut = {}

\* one call has committed, another met a violation and then lost its
\* connection in ROLLBACK, and both have released their connections
C11_Witness ==
    \E c, d \in CallIds :
        /\ call[c].pc = "done" /\ call[c].response.status = 201 /\ call[c].released = 1
        /\ call[d].pc = "done" /\ call[d].response.status = 0
        /\ call[d].err = "valid_flight_times" /\ call[d].conn = "lost"
        /\ call[d].released = 1

\* C12: a call that could not obtain a connection, or lost the store in its
\* transaction or in ROLLBACK, has answered with a failure when it has ended,
\* and no row carries its number.
C12_InfrastructureFailuresReported ==
    \A c \in CallIds :
        (call[c].pc = "done" /\ call[c].conn # "ok") =>
            /\ call[c].response.status = 500
            /\ ~call[c].response.success
            /\ call[c].txn # "committed"

\* ---- the transaction of a call -----------------------------------------
\* C13 as stated: a call that issued BEGIN has issued exactly one of COMMIT
\* and ROLLBACK when its connection is released, and its transaction is not
\* open then.
C13_ExactlyOneEnd ==
    \A c \in CallIds :
        (call[c].pc = "done" /\ call[c].conn # "none") =>
            /\ Len(call[c].ends) = 1
            /\ call[c].txn \notin {"open", "aborted"}

\* C13 amended: a call that issued BEGIN has issued COMMIT or ROLLBACK when
\* its connection is released: COMMIT alone when it committed, ROLLBACK alone
\* when a statement before COMMIT failed, and COMMIT followed by ROLLBACK
\* when COMMIT itself failed; its transaction is not open then; a call in
\* flight has issued neither, or a COMMIT that failed.
C13_TransactionEnded ==
    \A c \in CallIds :
        /\ (call[c].pc = "done" /\ call[c].conn # "none") =>
            /\ call[c].ends \in {<<"COMMIT">>, <<"ROLLBACK">>, <<"COMMIT", "ROLLBACK">>}
            /\ call[c].ends = <<"COMMIT">> <=> call[c].txn = "committed"
            /\ call[c].ends = <<"COMMIT">> <=> call[c].response.status = 201
            /\ call[c].ends = <<"COMMIT", "ROLLBACK">> => call[c].conn = "lost"
            /\ call[c].txn \in {"none", "committed", "rolledback", "closed"}
            /\ call[c].txn = "none" => call[c].conn = "lost"
        /\ InFlight(c) =>
            /\ call[c].ends \in {<<>>, <<"COMMIT">>}
            /\ call[c].ends = <<"COMMIT">> => (call[c].pc = "catch" /\ call[c].conn = "lost")
        /\ (call[c].pc = "done" /\ call[c].conn = "none") => call[c].ends = <<>>

\* one call has committed, one has rolled back, and a third kind has ended:
\* a call whose COMMIT failed and that issued ROLLBACK after it
C13_Witness ==
    \E c, d \in CallIds :
        /\ call[c].pc = "done" /\ call[c].ends = <<"COMMIT", "ROLLBACK">>
        /\ call[c].txn = "closed"
        /\ call[d].pc = "done" /\ call[d].ends = <<"ROLLBACK">>
        /\ call[d].txn = "rolledback"

\* ---- readers -----------------------------------------------------------
RowsOf(table, id) == {r \in table : r.sortie_id = id}

\* C14: a sortie row becomes visible in the step that makes all the crew,
\* passenger and cargo rows of its creation call visible, its one cargo row
\* among them; the rows of a visible sortie stay as they are while calls
\* create and requests read; and a fetch that answers with a sortie answers
\* with all the rows the sortie has, read over its four queries, and with a
\* cargo row.
C14_NoPartialAggregate ==
    [][ /\ \A r \in sorties' \ sorties :
            \E c \in CallIds :
                /\ call[c].pc = "commit" /\ r \in call[c].tx.sorties
                /\ RowsOf(sortie_crew', r.sortie_id) = call[c].tx.crew
                /\ RowsOf(sortie_passengers', r.sortie_id) = call[c].tx.passengers
                /\ RowsOf(sortie_cargo', r.sortie_id) = call[c].tx.cargo
                /\ Cardinality(call[c].tx.cargo) = 1
        /\ \A r \in sorties :
            /\ r \in sorties'
            /\ RowsOf(sortie_crew', r.sortie_id) = RowsOf(sortie_crew, r.sortie_id)
            /\ RowsOf(sortie_passengers', r.sortie_id)
                    = RowsOf(sortie_passengers, r.sortie_id)
            /\ RowsOf(sortie_cargo', r.sortie_id) = RowsOf(sortie_cargo, r.sortie_id)
        /\ (get.pc = "cargo" /\ get'.response.status = 200) =>
            LET id == CastInteger(get.segment)
            IN  /\ get'.response.sortie = RowsOf(sorties', id)
                /\ get'.response.crew = RowsOf(sortie_crew', id)
                /\ get'.response.passengers = RowsOf(sortie_passengers', id)
                /\ get'.response.cargo = RowsOf(sortie_cargo', id)
                /\ Cardinality(get'.response.cargo) = 1 ]_vars

\* a fetch has answered with a sortie that a creation call committed while
\* the model ran, with its crew, passenger and cargo rows
C14_Witness ==
    /\ get.pc = "done" /\ get.response.status = 200
    /\ get.response.passengers # {} /\ get.response.crew # {}
    /\ get.response.cargo # {}
    /\ commits > 0

\* C15: a GET of /api/sorties/search is handled by the search, which has one
\* query: it ends in the step that routes it, and answers with exactly the
\* visible sorties that satisfy every filter given, up to the limit, unless
\* its query failed.
C15_FilteredSearch ==
    [][(get'.n = get.n + 1 /\ get'.segment = SearchSegment) =>
            /\ get'.pc = "done"
            /\ get'.response \in {SearchFailed, Found(SearchRows(sorties, get'.query))}
      ]_vars

\* the identifier of a fetch matches no sortie row
MatchesNoSortie(segment) ==
    IsInteger(segment) => RowsOf(sorties, CastInteger(segment)) = {}

\* C16: a fetch whose identifier matches no sortie row, and whose query the
\* store answered, answers 404, which is not the status of a failed creation
\* or of a failed read; no step of a fetch changes the store.
C16_NotFoundIsDistinct ==
    [][ /\ ( /\ get.pc = "sortie" /\ get'.pc = "done"
             /\ MatchesNoSortie(get.segment)
             /\ get'.err # ConnectionError )
            => get'.response = NotFound
        /\ NotFound.status \notin {Failed(NoError).status, FetchFailed.status}
        /\ get' # get =>
            /\ tables' = tables /\ aircraft' = aircraft
            /\ sortie_id_seq' = sortie_id_seq ]_vars

\* C17: every sortie row a creation call commits has status Completed, and
\* none of the other statuses, whatever the payload carries.
C17_CreatedCompleted ==
    [][\A r \in sorties' \ sorties :
        /\ r.sortie_status = "Completed"
        /\ r.sortie_status \notin SortieStatuses \ {"Completed"} ]_vars

\* the call whose payload asks for status Planned has committed its sortie
C17_Witness ==
    /\ commits > 0
    /\ \E r \in sorties :
        /\ r.mission_type = "Lift" /\ r.aircraft_id = 2
        /\ r.sortie_status = "Completed"

\* ---- crew rows ---------------------------------------------------------
\* the crew rows a payload asks for: one per fixed slot that carries a
\* personnel identifier, one per additional entry that carries one
ExpectedCrew(id, p) ==
    {CrewRow(id, p.crew[FixedSlots[i]].name, FixedPositions[i], Null) :
        i \in {j \in 1..3 : p.crew[FixedSlots[j]].defined
                            /\ p.crew[FixedSlots[j]].name # 0}}
    \cup {CrewRow(id, p.crew.additional[i].name, "Other", p.crew.additional[i].position) :
            i \in {j \in 1..Len(p.crew.additional) : p.crew.additional[j].name # 0}}

\* the call commits in this step
Commits(c) == call[c].pc = "commit" /\ call'[c].response.status = 201

\* the crew rows of the sortie that call c commits are those of its payload
CrewMirrored(c) ==
    Commits(c) =>
        RowsOf(sortie_crew', call[c].sortieId)
            = ExpectedCrew(call[c].sortieId, call[c].payload)

\* the payload names nobody as crew
NoCrewAtAll(p) ==
    \/ ~p.crew.defined
    \/ /\ \A i \in 1..3 : ~p.crew[FixedSlots[i]].defined \/ p.crew[FixedSlots[i]].name = 0
       /\ \A i \in 1..Len(p.crew.additional) : p.crew.additional[i].name = 0

\* C18: the crew rows of a sortie that a call commits are exactly the rows
\* its payload asks for; and a call whose payload is valid and has no crew
\* at all commits, on a healthy connection, a sortie with no crew row.
C18_CrewRowsMirrorPayload ==
    [][\A c \in CallIds :
        /\ CrewMirrored(c)
        /\ ( /\ Returns(c)
             /\ call'[c].conn = "ok"
             /\ call[c].payload.sortie = BaseSortie
             /\ call[c].payload.passengers = BasePassengers
             /\ call[c].payload.cargo = EmptyCargo
             /\ NoCrewAtAll(call[c].payload)
             /\ call[c].err # "sorties_sortie_number_key" )
            => /\ call'[c].response.status = 201
               /\ RowsOf(sortie_crew', call[c].sortieId) = {} ]_vars

\* ---- passenger rows ----------------------------------------------------
\* the passenger rows a payload asks for: one per category it carries
ExpectedPassengers(id, p) ==
    {[sortie_id |-> id, passenger_type |-> passengerTypeMap[t],
      onload_count |-> p.passengers[t].onload,
      offload_count |-> p.passengers[t].offload,
      notes |-> IF p.passengers[t].notes = "" THEN Null ELSE p.passengers[t].notes] :
        t \in {x \in DOMAIN passengerTypeMap : p.passengers[x].defined}}

\* C19: the passenger rows of a sortie that a call commits are one row for
\* each category its payload carries, with 0 for a count left out, and none
\* for a category it does not carry; committed passenger rows are at most one
\* per sortie and category, and their counts are not negative.
C19_PassengerRowsMirrorPayload ==
    [][ /\ \A c \in CallIds :
            Commits(c) =>
                RowsOf(sortie_passengers', call[c].sortieId)
                    = ExpectedPassengers(call[c].sortieId, call[c].payload)
        /\ \A r \in sortie_passengers' :
            /\ r.onload_count >= 0 /\ r.offload_count >= 0
            /\ \A r2 \in sortie_passengers' :
                (r2.sortie_id = r.sortie_id /\ r2.passenger_type = r.passenger_type)
                    => r2 = r ]_vars

\* a sortie is committed with a row for two of the categories, one of them
\* with counts left out
C19_Witness ==
    /\ commits > 0
    /\ \E r1, r2 \in sortie_passengers :
        /\ r1.sortie_id = r2.sortie_id
        /\ r1.passenger_type = "Civilian" /\ r1.onload_count = 0 /\ r1.offload_count = 0
        /\ r2.passenger_type = "Other" /\ r2.onload_count = 3
        /\ RowsOf(sortie_passengers, r1.sortie_id) = {r1, r2}

\* ---- position Other ----------------------------------------------------
\* an additional-crew entry names a person and carries no position label
HasUnlabelledEntry(p) ==
    /\ p.crew.defined
    /\ \E i \in 1..Len(p.crew.additional) :
        /\ p.crew.additional[i].name # 0
        /\ p.crew.additional[i].position \in {Undefined, ""}

\* C20: every committed crew row with position Other has a description that
\* is not empty; a call with an additional-crew entry that names a person
\* and has no position label never commits and persists nothing.
C20_OtherRequiresDescription ==
    [][ /\ \A r \in sortie_crew' :
            r.crew_position = "Other" => r.crew_position_other \notin {Null, ""}
        /\ \A c \in CallIds :
            (InFlight(c) /\ HasUnlabelledEntry(call[c].payload))
            => /\ call[c].pc # "commit"
               /\ Returns(c) =>
                    /\ call'[c].response.status # 201
                    /\ tables' = tables ]_vars

\* ---- ownership -----------------------------------------------------------
SortieIds(rows) == {r.sortie_id : r \in rows}

Owned == (sortie_crew \cup sortie_passengers) \cup sortie_cargo

\* the sorties whose row goes in this step
Deleted == SortieIds(sorties) \ SortieIds(sorties')

\* C21: every committed crew, passenger and cargo row references a committed
\* sortie row; a step that deletes a sortie row removes every crew, passenger
\* and cargo row that references it and leaves the rows of every other
\* sortie, in all four tables, as they were.
C21_OwnedRowsFollowTheirSortie ==
    /\ [](SortieIds(Owned) \subseteq SortieIds(sorties))
    /\ [][Deleted # {} =>
            /\ sorties' = {r \in sorties : r.sortie_id \notin Deleted}
            /\ sortie_crew' = {r \in sortie_crew : r.sortie_id \notin Deleted}
            /\ sortie_passengers' =
                    {r \in sortie_passengers : r.sortie_id \notin Deleted}
            /\ sortie_cargo' = {r \in sortie_cargo : r.sortie_id \notin Deleted}]_vars

\* a sortie that a call committed with crew, passenger and cargo rows has
\* been deleted, and the rows of another sortie are still there
C21_Witness ==
    \E c \in CallIds :
        /\ call[c].response.status = 201
        /\ call[c].response.sortieId \notin SortieIds(sorties)
        /\ call[c].response.sortieId \notin SortieIds(Owned)
        /\ sorties # {} /\ sortie_crew # {} /\ sortie_cargo # {}

\* ---- the order of the numbers ---------------------------------------------
\* the year a sortie is numbered for: the characters between the two hyphens
NumberedFor(sortie_number) == SubSeq(sortie_number, 3, 6)

\* C22: with creation calls only, a sortie that commits carries a sequence
\* number strictly greater than that of every sortie committed before it and
\* numbered for the same year.
C22_MonotonicNumbering ==
    [][\A b \in sorties' \ sorties : \A a \in sorties :
        NumberedFor(a.sortie_number) = NumberedFor(b.sortie_number)
            => SeqNumber(b.sortie_number) > SeqNumber(a.sortie_number)]_vars

\* two overlapping calls have committed one after the other, numbered for the
\* same year, over a store that held sorties of that year already
C22_Witness ==
    /\ commits = 2
    /\ \E c, d \in CallIds :
        /\ c # d
        /\ call[c].response.status = 201 /\ call[d].response.status = 201
        /\ NumberedFor(call[c].response.sortieNumber)
                = NumberedFor(call[d].response.sortieNumber)
        /\ \E a \in sorties :
            /\ a.sortie_id \notin {call[c].response.sortieId, call[d].response.sortieId}
            /\ NumberedFor(a.sortie_number) = NumberedFor(call[c].response.sortieNumber)

\* ---- creation and the aircraft hours --------------------------------------
\* C23: no step of a creation call, of one that commits or of one that fails,
\* changes a row of aircraft: the flight hours of every aircraft, that of the
\* sortie included, are after the step what they were before it, although
\* the sortie row is inserted with status Completed.
C23_CreationLeavesAircraft ==
    [][(\E c \in CallIds : call'[c] # call[c]) => aircraft' = aircraft]_vars

\* a call has committed a sortie with status Completed and a flight of some
\* minutes, and its aircraft has the hours it had
C23_Witness ==
    \E c \in CallIds : \E r \in sorties :
        /\ call[c].response.status = 201
        /\ r.sortie_id = call[c].response.sortieId
        /\ r.sortie_status = "Completed"
        /\ flight_duration_minutes(r) > 0
        /\ aircraft[r.aircraft_id] = 0

\* ---- the numbering race ---------------------------------------------------
UniqueViolation == "sorties_sortie_number_key"

\* C24: of two calls that derived the same sortie number, at most one
\* commits; when the other, with an otherwise valid payload and on a healthy
\* connection, returns, it has failed on the uniqueness of the sortie number
\* and answers 500 with that violation, and its return leaves every table as
\* it was: the number is carried by the sortie of the committed call only.
C24_RaceHasOneWinner ==
    /\ [](\A c, d \in CallIds :
            (c # d /\ call[c].response.status = 201 /\ call[d].response.status = 201)
                => call[c].response.sortieNumber # call[d].response.sortieNumber)
    /\ [][\A c, d \in CallIds :
            ( /\ c # d
              /\ call[c].response.status = 201
              /\ call[d].sortieNumber = call[c].response.sortieNumber
              /\ ValidPayload(call[d].payload)
              /\ Returns(d) /\ call'[d].conn = "ok" )
                => /\ call'[d].response = Failed(UniqueViolation)
                   /\ tables' = tables
                   /\ \A r \in sorties' :
                        r.sortie_number = call[d].sortieNumber
                            => r.sortie_id = call[c].response.sortieId]_vars

\* two calls derived the same number before either committed; one has
\* committed it, the other has answered 500 with the uniqueness violation,
\* and the committed sortie has its crew, passenger and cargo rows
C24_Witness ==
    \E c, d \in CallIds :
        /\ call[c].response.status = 201
        /\ call[d].response = Failed(UniqueViolation)
        /\ call[d].sortieNumber = call[c].response.sortieNumber
        /\ call[d].epoch < commits
        /\ RowsOf(sortie_crew, call[c].response.sortieId) # {}
        /\ RowsOf(sortie_passengers, call[c].response.sortieId) # {}
        /\ RowsOf(sortie_cargo, call[c].response.sortieId) # {}

\* ---- the end of the four-digit range --------------------------------------
\* C25: with no other creation in flight, whatever the highest sequence
\* number of the current year, 9999 included, the number a call derives is
\* carried by no committed sortie and its sequence part is that highest
\* number plus one, and the sortie insert of a valid payload is accepted.
C25_NumberingPastRange ==
    [][\A c \in CallIds :
        /\ (Generate(c) /\ call'[c].conn = "ok") =>
                /\ call'[c].sortieNumber \notin UsedNumbers(sorties)
                /\ SeqNumber(call'[c].sortieNumber) = MaxSeqOfYear(sorties, year) + 1
        /\ (InsertSortie(c) /\ call'[c].conn = "ok" /\ ValidPayload(call[c].payload)) =>
                call'[c].pc # "catch"]_vars

====
